---- MODULE Spec2Model ----
(***************************************************************************)
(* The ledger engine of kids_blockchain (src/src/kids_blockchain/core.py)  *)
(* and the two shell commands that export and import it (shell.py).        *)
(*                                                                         *)
(* Strings are sequences of one-character strings, so that strip() and     *)
(* upper() are computed. Floats are records [nan, v]: v counts units of    *)
(* 1/Quantum of 1e-8 coin (the place round(balance, 8) rounds to) and nan  *)
(* is Python's float("nan"). The SHA-256 digest is abstracted to HashLen   *)
(* digits in base HashBase, computed from every hashed field.              *)
(***************************************************************************)
EXTENDS Integers, Sequences, FiniteSets, TLC

\* bc:  the Blockchain object the caller holds (BlockchainShell.bc), a record
\*      of its attributes chain, pending, users, difficulty and reward
\* ret: the last call made on the ledger, what it returned or raised, and for
\*      a load the field that the file loaded was missing
\* calls: how many calls have changed the ledger since it was constructed
VARIABLES bc, ret, calls

vars == <<bc, ret, calls>>

(* ------------------------------ bounds -------------------------------- *)

\* Calls that change the ledger (a registration, an admitted transaction, a
\* mined block) explored from a new ledger.
MaxOps == 5

\* Digits of a digest (64 in hashlib.sha256(...).hexdigest()).
HashLen == 2

\* Digit alphabet of a digest (16 in a hexdigest).
HashBase == 3

\* Units per 1e-8 coin: round(balance, 8) rounds to multiples of Quantum.
Quantum == 3

(* ------------------------------ strings ------------------------------- *)

SYSTEM == <<"S", "Y", "S", "T", "E", "M">>

GENESIS == <<"G", "E", "N", "E", "S", "I", "S">>

alice == <<"a", "l", "i", "c", "e">>

bob == <<"b", "o", "b">>

carol == <<"c", "a", "r", "o", "l">>

EmptyStr == <<>>

GenesisNote == <<"G", "e", "n", "e", "s", "i", "s">>

RewardNote == <<"M", "i", "n", "i", "n", "g", " ", "r", "e", "w", "a", "r", "d">>

LowerCase ==
    <<"a", "b", "c", "d", "e", "f", "g", "h", "i", "j", "k", "l", "m",
      "n", "o", "p", "q", "r", "s", "t", "u", "v", "w", "x", "y", "z">>

UpperCase ==
    <<"A", "B", "C", "D", "E", "F", "G", "H", "I", "J", "K", "L", "M",
      "N", "O", "P", "Q", "R", "S", "T", "U", "V", "W", "X", "Y", "Z">>

\* The position of c in alphabet, 0 when it is not in it.
IndexIn(alphabet, c) ==
    IF \E i \in 1..Len(alphabet) : alphabet[i] = c
    THEN CHOOSE i \in 1..Len(alphabet) : alphabet[i] = c
    ELSE 0

\* str.upper() on one character.
upperChar(c) == IF IndexIn(LowerCase, c) > 0 THEN UpperCase[IndexIn(LowerCase, c)] ELSE c

\* The order of the characters (space, digits, upper case, lower case).
CodePoint(c) == IndexIn(<<" ", "0">> \o UpperCase \o LowerCase, c)

\* str.upper()
upper(s) == [i \in 1..Len(s) |-> upperChar(s[i])]

RECURSIVE lstrip(_)
lstrip(s) == IF s # <<>> /\ Head(s) = " " THEN lstrip(Tail(s)) ELSE s

RECURSIVE rstrip(_)
rstrip(s) ==
    IF s # <<>> /\ s[Len(s)] = " " THEN rstrip(SubSeq(s, 1, Len(s) - 1)) ELSE s

\* str.strip()
strip(s) == rstrip(lstrip(s))

(* ------------------------------- floats ------------------------------- *)

Float(n) == [nan |-> FALSE, v |-> n]

NaN == [nan |-> TRUE, v |-> 0]

FAdd(x, y) == IF x.nan \/ y.nan THEN NaN ELSE Float(x.v + y.v)

FSub(x, y) == IF x.nan \/ y.nan THEN NaN ELSE Float(x.v - y.v)

\* x < y and x <= y: every comparison with nan is False.
FLt(x, y) == ~x.nan /\ ~y.nan /\ x.v < y.v

FLe(x, y) == ~x.nan /\ ~y.nan /\ x.v <= y.v

\* The multiple of Quantum nearest to n, ties to the even multiple.
RoundInt(n) ==
    LET r == n % Quantum
        lo == n - r
    IN  IF 2 * r < Quantum THEN lo
        ELSE IF 2 * r > Quantum THEN lo + Quantum
        ELSE IF (lo \div Quantum) % 2 = 0 THEN lo ELSE lo + Quantum

\* round(balance, 8)
round8(x) == IF x.nan THEN NaN ELSE Float(RoundInt(x.v))

\* What callers pass as amount: a float, a string (the shell passes the word
\* the user typed) or any other object.
FloatArg(n) == [t |-> "float", numeric |-> TRUE, val |-> Float(n)]

NaNArg == [t |-> "float", numeric |-> TRUE, val |-> NaN]

StrArg(n) == [t |-> "str", numeric |-> TRUE, val |-> Float(n)]

WordArg == [t |-> "str", numeric |-> FALSE, val |-> Float(0)]

NoneArg == [t |-> "NoneType", numeric |-> FALSE, val |-> Float(0)]

\* float(amount): the value, or the exception raised.
py_float(x) ==
    IF x.t \notin {"float", "str"} THEN [exc |-> "TypeError", val |-> Float(0)]
    ELSE IF ~x.numeric THEN [exc |-> "ValueError", val |-> Float(0)]
    ELSE [exc |-> "none", val |-> x.val]

(* ------------------------------ records ------------------------------- *)

Transaction(sender, recipient, amount, note, timestamp) ==
    [sender |-> sender, recipient |-> recipient, amount |-> amount,
     note |-> note, timestamp |-> timestamp]

Block(index, timestamp, transactions, previous_hash, nonce, hash) ==
    [index |-> index, timestamp |-> timestamp, transactions |-> transactions,
     previous_hash |-> previous_hash, nonce |-> nonce, hash |-> hash]

(* ------------------------------- Hasher ------------------------------- *)

HashMod == HashBase ^ HashLen

\* One character of the hashed text.
CharCode(c) == CodePoint(c)

RECURSIVE StrCode(_)
StrCode(s) ==
    IF s = <<>> THEN 1
    ELSE (2 * StrCode(SubSeq(s, 1, Len(s) - 1)) + CharCode(s[Len(s)])) % HashMod

AmountCode(a) == IF a.nan THEN 1 ELSE (2 * a.v + 3) % HashMod

\* One transaction of json.dumps([t.to_dict() ...], sort_keys=True): the
\* keys in sorted order are amount, note, recipient, sender, timestamp.
TxCode(t) ==
    (AmountCode(t.amount) + 2 * StrCode(t.note) + 4 * StrCode(t.recipient)
        + 5 * StrCode(t.sender) + 7 * StrCode(t.timestamp) + 1) % HashMod

RECURSIVE TxsCode(_)
TxsCode(txs) ==
    IF txs = <<>> THEN 1
    ELSE (2 * TxsCode(SubSeq(txs, 1, Len(txs) - 1)) + TxCode(txs[Len(txs)])) % HashMod

RECURSIVE DigitsValue(_)
DigitsValue(h) ==
    IF h = <<>> THEN 0
    ELSE DigitsValue(SubSeq(h, 1, Len(h) - 1)) * HashBase + h[Len(h)]

\* n written with HashLen digits, most significant first.
Digits(n) ==
    [i \in 1..HashLen |-> (n \div (HashBase ^ (HashLen - i))) % HashBase]

\* _hash_block: the digest of f"{index}|{timestamp}|{tx_json}|{previous_hash}|{nonce}"
_hash_block(index, timestamp, transactions, previous_hash, nonce) ==
    Digits((4 * index + 5 * StrCode(timestamp) + 7 * TxsCode(transactions)
            + 2 * DigitsValue(previous_hash) + nonce + 1) % HashMod)

\* "0" * n
Zeros(n) == [i \in 1..n |-> 0]

\* str.startswith
startswith(s, prefix) ==
    /\ Len(prefix) <= Len(s)
    /\ \A i \in 1..Len(prefix) : s[i] = prefix[i]

(* ------------------------------- Ledger ------------------------------- *)

\* _now: the timestamp string, here the one-element string of the clock's
\* reading in whole seconds; every call of a run is made within the second
\* the ledger was constructed in.
_now == <<"0">>

Last(s) == s[Len(s)]

\* _new_block: index is len(self.chain), nonce 0, the hash not yet mined.
_new_block(self, previous_hash, transactions, timestamp) ==
    Block(Len(self.chain), timestamp, transactions, previous_hash, 0,
          _hash_block(Len(self.chain), timestamp, transactions, previous_hash, 0))

\* _create_genesis: t1 and t2 are the two clock readings it takes.
_create_genesis(self, t1, t2) ==
    [self EXCEPT !.chain =
        Append(@, _new_block(self, Zeros(64),
                             <<Transaction(SYSTEM, GENESIS, Float(0), GenesisNote, t1)>>, t2))]

\* Blockchain.__init__
Blockchain(difficultyArg, rewardArg, t1, t2) ==
    _create_genesis(
        [chain |-> <<>>, pending |-> <<>>, users |-> {},
         difficulty |-> IF difficultyArg > 0 THEN difficultyArg ELSE 0,
         reward |-> rewardArg],
        t1, t2)

\* The reserved-name test of add_user (a mutant: only the upper-case spelling
\* is reserved).
reserved_UpperCaseOnly(name) == name = SYSTEM

reserved(name) == upper(name) = SYSTEM

\* add_user: the ledger afterwards and the value returned.
add_user(self, nameArg) ==
    LET name == strip(nameArg)
    IN  IF name = <<>> \/ reserved(name) THEN [self |-> self, out |-> "False"]
        ELSE IF name \in self.users THEN [self |-> self, out |-> "False"]
        ELSE [self |-> [self EXCEPT !.users = @ \cup {name}], out |-> "True"]

\* The effect of one transaction on name's balance in a committed block (a
\* mutant: the recipient is not credited).
Applied_DebitOnly(balance, tx, name) ==
    IF tx.sender = name THEN FSub(balance, tx.amount) ELSE balance

Applied(balance, tx, name) ==
    LET debited == IF tx.sender = name THEN FSub(balance, tx.amount) ELSE balance
    IN  IF tx.recipient = name THEN FAdd(debited, tx.amount) ELSE debited

RECURSIVE FoldTxs(_, _, _)
FoldTxs(balance, txs, name) ==
    IF txs = <<>> THEN balance
    ELSE FoldTxs(Applied(balance, Head(txs), name), Tail(txs), name)

RECURSIVE FoldChain(_, _, _)
FoldChain(balance, blocks, name) ==
    IF blocks = <<>> THEN balance
    ELSE FoldChain(FoldTxs(balance, Head(blocks).transactions, name), Tail(blocks), name)

RECURSIVE FoldPending(_, _, _)
FoldPending(balance, txs, name) ==
    IF txs = <<>> THEN balance
    ELSE FoldPending(IF Head(txs).sender = name THEN FSub(balance, Head(txs).amount)
                     ELSE balance,
                     Tail(txs), name)

\* The balance get_balance accumulates, before it is rounded.
Replayed(self, name) ==
    FoldPending(FoldChain(Float(0), self.chain, name), self.pending, name)

\* get_balance
get_balance(self, name) == round8(Replayed(self, name))

\* The balance check of add_transaction, SYSTEM exempt (a mutant: a sender
\* may not spend the whole balance).
insufficient_WholeBalanceRefused(self, sender, amount) ==
    sender # SYSTEM /\ FLe(get_balance(self, sender), amount)

insufficient(self, sender, amount) ==
    sender # SYSTEM /\ FLt(get_balance(self, sender), amount)

\* The queue after add_transaction admitted tx (a mutant: the queue is started
\* afresh), and after it refused one (a mutant: the refused one is queued).
admitted_QueueRestarted(self, tx) == <<tx>>

admitted(self, tx) == Append(self.pending, tx)

refused_StillQueued(self, tx) == Append(self.pending, tx)

refused(self, tx) == self.pending

\* The recipient check of add_transaction (a mutant: any recipient is taken).
unknown_recipient_NeverRefused(self, recipient) == FALSE

unknown_recipient(self, recipient) == recipient \notin self.users /\ recipient # GENESIS

\* add_transaction: the ledger afterwards and the value returned ("None" on
\* success, else the message) or the exception raised; timestamp is the clock
\* reading taken when the transaction is built.
add_transaction(self, sender, recipient, amountArg, note, timestamp) ==
    LET parsed == py_float(amountArg)
        amount == parsed.val
        tx == Transaction(sender, recipient, amount, note, timestamp)
        fail(out) == [self |-> [self EXCEPT !.pending = refused(self, tx)], out |-> out]
    IN  IF parsed.exc = "ValueError" THEN [self |-> self, out |-> "Amount must be a number."]
        ELSE IF parsed.exc # "none" THEN [self |-> self, out |-> parsed.exc]
        ELSE IF FLe(amount, Float(0)) THEN fail("Amount must be positive.")
        ELSE IF sender # SYSTEM /\ sender \notin self.users THEN fail("Unknown sender")
        ELSE IF unknown_recipient(self, recipient) THEN fail("Unknown recipient")
        ELSE IF insufficient(self, sender, amount) THEN fail("Insufficient funds")
        ELSE [self |-> [self EXCEPT !.pending = admitted(self, tx)], out |-> "None"]

\* The proof-of-work loop of mine: the nonce goes up by one and the hash is
\* recomputed until the hash starts with the target prefix (a mutant: the
\* hash is recomputed without the block's transactions).
RECURSIVE ProofOfWork_TransactionsNotHashed(_, _)
ProofOfWork_TransactionsNotHashed(block, target_prefix) ==
    IF startswith(block.hash, target_prefix) THEN block
    ELSE ProofOfWork_TransactionsNotHashed(
            [block EXCEPT !.nonce = block.nonce + 1,
                          !.hash = _hash_block(block.index, block.timestamp, <<>>,
                                               block.previous_hash, block.nonce + 1)],
            target_prefix)

\* (Another mutant: the hash computed with nonce 0 is not tried.)
RECURSIVE ProofOfWork_FirstHashSkipped(_, _)
ProofOfWork_FirstHashSkipped(block, target_prefix) ==
    LET next == [block EXCEPT !.nonce = block.nonce + 1,
                              !.hash = _hash_block(block.index, block.timestamp,
                                                   block.transactions, block.previous_hash,
                                                   block.nonce + 1)]
    IN  IF startswith(next.hash, target_prefix) THEN next
        ELSE ProofOfWork_FirstHashSkipped(next, target_prefix)

RECURSIVE ProofOfWork(_, _)
ProofOfWork(block, target_prefix) ==
    IF startswith(block.hash, target_prefix) THEN block
    ELSE ProofOfWork(
            [block EXCEPT !.nonce = block.nonce + 1,
                          !.hash = _hash_block(block.index, block.timestamp,
                                               block.transactions, block.previous_hash,
                                               block.nonce + 1)],
            target_prefix)

\* previous_hash of the block mine builds: the hash of the chain's last block
\* (a mutant: of its first).
tip_hash_OfFirstBlock(self) == self.chain[1].hash

tip_hash(self) == Last(self.chain).hash

\* The commit of mine: the block joins the chain and pending is emptied (a
\* mutant: pending is kept).
commit_PendingKept(self, block) == [self EXCEPT !.chain = Append(@, block)]

\* (Another mutant: the block takes the place of the chain's last one.)
commit_TipReplaced(self, block) ==
    [self EXCEPT !.chain = Append(SubSeq(@, 1, Len(@) - 1), block), !.pending = <<>>]

commit(self, block) == [self EXCEPT !.chain = Append(@, block), !.pending = <<>>]

\* The miner check of mine (a mutant: anyone may mine).
unknown_miner_NeverRefused(self, miner) == FALSE

unknown_miner(self, miner) == miner \notin self.users

\* mine: the ledger afterwards and "Block" (the block returned is then the
\* last of the chain) or the exception raised; t1 and t2 are the clock
\* readings of the reward transaction and of the block.
mine(self, miner, t1, t2) ==
    IF unknown_miner(self, miner) THEN [self |-> self, out |-> "ValueError"]
    ELSE IF self.chain = <<>> THEN [self |-> self, out |-> "IndexError"]
    ELSE
        LET reward_tx == Transaction(SYSTEM, miner, self.reward, RewardNote, t1)
            txs == self.pending \o <<reward_tx>>
            block == ProofOfWork(_new_block(self, tip_hash(self), txs, t2),
                                 Zeros(self.difficulty))
        IN  [self |-> commit(self, block), out |-> "Block"]

(* --------------------------- export, import --------------------------- *)

\* dict.get(key, default)
Get(d, key, default) == IF key \in DOMAIN d THEN d[key] ELSE default

\* a < b on strings: the first differing character decides, else the length.
RECURSIVE StrLess(_, _)
StrLess(a, b) ==
    IF b = <<>> THEN FALSE
    ELSE IF a = <<>> THEN TRUE
    ELSE IF Head(a) # Head(b) THEN CodePoint(Head(a)) < CodePoint(Head(b))
    ELSE StrLess(Tail(a), Tail(b))

\* sorted(self.users)
RECURSIVE sorted(_)
sorted(S) ==
    IF S = {} THEN <<>>
    ELSE LET least == CHOOSE x \in S : \A y \in S \ {x} : StrLess(x, y)
         IN  <<least>> \o sorted(S \ {least})

\* set(list)
set(list) == {list[i] : i \in 1..Len(list)}

\* Transaction.to_dict: asdict(self)
Transaction_to_dict(t) ==
    [sender |-> t.sender, recipient |-> t.recipient, amount |-> t.amount,
     note |-> t.note, timestamp |-> t.timestamp]

\* Transaction.from_dict: Transaction(**d); note and timestamp default to "",
\* a missing or an unknown field raises TypeError.
Transaction_from_dict(d) ==
    IF /\ {"sender", "recipient", "amount"} \subseteq DOMAIN d
       /\ DOMAIN d \subseteq {"sender", "recipient", "amount", "note", "timestamp"}
    THEN [exc |-> "none",
          val |-> Transaction(d.sender, d.recipient, d.amount,
                              Get(d, "note", EmptyStr), Get(d, "timestamp", EmptyStr))]
    ELSE [exc |-> "TypeError", val |-> <<>>]

\* The first exception among results, "none" when there is none.
FirstException(results) ==
    IF \A i \in 1..Len(results) : results[i].exc = "none" THEN "none"
    ELSE results[CHOOSE i \in 1..Len(results) :
                    /\ results[i].exc # "none"
                    /\ \A j \in 1..(i - 1) : results[j].exc = "none"].exc

\* [Transaction.from_dict(t) for t in list]: the list built, or the first
\* exception.
Transactions_from_dicts(list) ==
    LET results == [i \in 1..Len(list) |-> Transaction_from_dict(list[i])]
    IN  IF FirstException(results) # "none"
        THEN [exc |-> FirstException(results), val |-> <<>>]
        ELSE [exc |-> "none", val |-> [i \in 1..Len(list) |-> results[i].val]]

\* Block.to_dict
Block_to_dict(b) ==
    [index |-> b.index, timestamp |-> b.timestamp,
     transactions |-> [i \in 1..Len(b.transactions) |-> Transaction_to_dict(b.transactions[i])],
     previous_hash |-> b.previous_hash, nonce |-> b.nonce, hash |-> b.hash]

\* Block.from_dict: the fields are read in the order index, timestamp,
\* transactions, previous_hash, nonce, hash; a missing one raises KeyError.
Block_from_dict(d) ==
    IF ~({"index", "timestamp", "transactions"} \subseteq DOMAIN d)
    THEN [exc |-> "KeyError", val |-> <<>>]
    ELSE LET transactions == Transactions_from_dicts(d.transactions)
         IN  IF transactions.exc # "none" THEN [exc |-> transactions.exc, val |-> <<>>]
             ELSE IF ~({"previous_hash", "nonce", "hash"} \subseteq DOMAIN d)
             THEN [exc |-> "KeyError", val |-> <<>>]
             ELSE [exc |-> "none",
                   val |-> Block(d.index, d.timestamp, transactions.val,
                                 d.previous_hash, d.nonce, d.hash)]

\* Blockchain.to_dict
to_dict(self) ==
    [difficulty |-> self.difficulty, reward |-> self.reward, users |-> sorted(self.users),
     pending |-> [i \in 1..Len(self.pending) |-> Transaction_to_dict(self.pending[i])],
     chain |-> [i \in 1..Len(self.chain) |-> Block_to_dict(self.chain[i])]]

\* The defaults of Blockchain.__init__ and from_dict; the reward 10.0 is ten
\* rounding steps in the model's scaled-down coin.
DefaultDifficulty == 2

DefaultReward == Float(10 * Quantum)

\* The users, pending and chain that from_dict puts in place of the new
\* ledger's (mutants: the new ledger's genesis block is kept at the head of
\* the chain; the pending queue is not restored).
restored_GenesisKept(fresh, users, pending, blocks) ==
    [fresh EXCEPT !.users = users, !.pending = pending, !.chain = fresh.chain \o blocks]

restored_PendingDropped(fresh, users, pending, blocks) ==
    [fresh EXCEPT !.users = users, !.chain = blocks]

restored(fresh, users, pending, blocks) ==
    [fresh EXCEPT !.users = users, !.pending = pending, !.chain = blocks]

\* Blockchain.from_dict: the ledger built, or the first exception; t1 and t2
\* are the clock readings of the constructor.
from_dict(d, t1, t2) ==
    LET fresh == Blockchain(Get(d, "difficulty", DefaultDifficulty),
                            Get(d, "reward", DefaultReward), t1, t2)
        users == set(Get(d, "users", <<>>))
        pending == Transactions_from_dicts(Get(d, "pending", <<>>))
        dicts == Get(d, "chain", <<>>)
        blocks == [i \in 1..Len(dicts) |-> Block_from_dict(dicts[i])]
    IN  IF pending.exc # "none" THEN [exc |-> pending.exc, val |-> <<>>]
        ELSE IF FirstException(blocks) # "none"
        THEN [exc |-> FirstException(blocks), val |-> <<>>]
        ELSE [exc |-> "none",
              val |-> restored(fresh, users, pending.val,
                               [i \in 1..Len(dicts) |-> blocks[i].val])]

\* BlockchainShell.do_load with the file's content parsed to data: the ledger
\* the shell holds afterwards and what was reported. An exception of from_dict
\* leaves the assignment to self.bc undone and is reported by handle.
do_load(self, data, t1, t2) ==
    LET loaded == from_dict(data, t1, t2)
    IN  IF loaded.exc = "none" THEN [self |-> loaded.val, out |-> "Loaded"]
        ELSE [self |-> self, out |-> loaded.exc]

(* ------------------------------- inputs ------------------------------- *)

\* Names given to add_user.
NameArgs ==
    {alice, bob, <<" ">> \o bob \o <<" ">>, EmptyStr, <<" ", " ">>,
     SYSTEM, <<"s", "y", "s", "t", "e", "m">>, GENESIS}

\* Names given as miner (carol is never registered).
Miners == {alice, bob, carol}

\* Calls of add_transaction, <<sender, recipient, amount>>. Payments: a faucet
\* mint and payments of less than and of exactly one rounding step, to another
\* user, to the sender and to GENESIS, and a payment of nan. TxArgs: these and
\* every combination of a known or unknown sender and recipient with an amount
\* that is no number, not positive, nan or positive.
Payments ==
    {<<SYSTEM, alice, FloatArg(2)>>, <<alice, bob, FloatArg(2)>>,
     <<alice, bob, StrArg(3)>>, <<alice, alice, StrArg(3)>>,
     <<alice, GENESIS, FloatArg(2)>>, <<alice, bob, NaNArg>>}

TxArgs ==
    Payments
    \cup ({SYSTEM, alice, carol} \X {bob, GENESIS, carol} \X {FloatArg(0), WordArg, NoneArg})
    \cup ({carol} \X {bob, GENESIS, carol} \X {FloatArg(2), NaNArg})
    \cup ({SYSTEM, alice} \X {carol} \X {FloatArg(2), NaNArg})

Notes == {EmptyStr}

\* d without its field k.
DropKey(d, k) == [x \in DOMAIN d \ {k} |-> d[x]]

TopKeys == {"difficulty", "reward", "users", "pending", "chain"}

BlockKeys == {"index", "timestamp", "transactions", "previous_hash", "nonce", "hash"}

TransactionKeys == {"sender", "recipient", "amount", "note", "timestamp"}

\* Files given to load: the export of the ledger, and the export with one
\* field taken out of the top level, of the last block, or of the last
\* transaction (the last pending one, or else the last of the last block).
\* `missing` is the path of the field taken out.
Snapshots(self) ==
    LET d == to_dict(self)
        n == Len(d.chain)
        p == Len(d.pending)
    IN  {[missing |-> <<>>, data |-> d]}
        \cup {[missing |-> <<k>>, data |-> DropKey(d, k)] : k \in TopKeys}
        \cup {[missing |-> <<"chain", k>>,
               data |-> [d EXCEPT !.chain[n] = DropKey(@, k)]] :
                    k \in IF n > 0 THEN BlockKeys ELSE {}}
        \cup {[missing |-> <<"pending", k>>,
               data |-> [d EXCEPT !.pending[p] = DropKey(@, k)]] :
                    k \in IF p > 0 THEN TransactionKeys ELSE {}}
        \cup {[missing |-> <<"chain", "transactions", k>>,
               data |-> [d EXCEPT !.chain[n].transactions[Len(d.chain[n].transactions)] =
                                    DropKey(@, k)]] :
                    k \in IF p = 0 /\ n > 0 THEN TransactionKeys ELSE {}}

\* Files given to load in the explored behaviours: the whole export, the
\* export without its chain, and the export whose last block lacks its hash
\* or whose last pending transaction lacks its sender.
LoadArgs(self) ==
    {snapshot \in Snapshots(self) :
        snapshot.missing \in {<<>>, <<"chain">>, <<"chain", "hash">>, <<"pending", "sender">>}}

\* Contents of the files handed to from_dict: every snapshot above, and the
\* export edited to hold a negative difficulty.
ImportArgs(self) ==
    {snapshot.data : snapshot \in Snapshots(self)}
        \cup {[to_dict(self) EXCEPT !.difficulty = -1]}

\* Arguments of the constructor.
DifficultyArgs == {-1, 1}

RewardArgs == {Float(3), Float(0)}

\* The constructor calls explored: difficulty -1 with reward 0, and
\* difficulty 1 with a reward of one rounding step.
ConstructorArgs ==
    {args \in DifficultyArgs \X RewardArgs : args[1] > 0 <=> FLt(Float(0), args[2])}

(* ------------------------------ behaviour ----------------------------- *)

Ret(op, out) == [op |-> op, out |-> out, missing |-> <<>>]

Init ==
    /\ \E args \in ConstructorArgs : bc = Blockchain(args[1], args[2], _now, _now)
    /\ ret = Ret("__init__", "None")
    /\ calls = 0

AddUser(name) ==
    /\ calls < MaxOps
    /\ LET r == add_user(bc, name)
       IN  /\ bc' = r.self
           /\ ret' = Ret("add_user", r.out)
           /\ calls' = IF r.self = bc THEN calls ELSE calls + 1

AddTransaction(sender, recipient, amountArg, note) ==
    /\ calls < MaxOps
    /\ LET r == add_transaction(bc, sender, recipient, amountArg, note, _now)
       IN  /\ bc' = r.self
           /\ ret' = Ret("add_transaction", r.out)
           /\ calls' = IF r.self = bc THEN calls ELSE calls + 1

Mine(miner) ==
    /\ calls < MaxOps
    /\ LET r == mine(bc, miner, _now, _now)
       IN  /\ bc' = r.self
           /\ ret' = Ret("mine", r.out)
           /\ calls' = IF r.self = bc THEN calls ELSE calls + 1

Next ==
    \/ \E name \in NameArgs : AddUser(name)
    \/ \E call \in TxArgs, note \in Notes : AddTransaction(call[1], call[2], call[3], note)
    \/ \E miner \in Miners : Mine(miner)

Spec == Init /\ [][Next]_vars

\* load <file>: the file holds an export of the ledger, whole or with one
\* field taken out. ret.missing is the field the loaded file lacked.
Load(snapshot) ==
    /\ calls < MaxOps
    /\ LET r == do_load(bc, snapshot.data, _now, _now)
       IN  /\ bc' = r.self
           /\ ret' = [op |-> "do_load", out |-> r.out,
                      missing |-> IF r.out = "Loaded" THEN snapshot.missing ELSE <<>>]
           /\ calls' = IF r.self = bc THEN calls ELSE calls + 1

\* The calls the shell makes on the ledger it holds (registrations, payments,
\* mining by a registered user) and load.
NextShell ==
    \/ \E name \in {alice, bob} : AddUser(name)
    \/ \E call \in Payments, note \in Notes : AddTransaction(call[1], call[2], call[3], note)
    \/ \E miner \in {alice, bob} : Mine(miner)
    \/ \E snapshot \in LoadArgs(bc) : Load(snapshot)

\* The ledger driven through the shell, load included.
SpecShell == Init /\ [][NextShell]_vars

(* ------------------------------- claims ------------------------------- *)

\* The amounts given to add_transaction in the explored calls.
AmountArgs == {call[3] : call \in TxArgs}

\* The last call was add_transaction(sender, recipient, ...) and it was admitted.
Admitted(sender, recipient) ==
    /\ ret = Ret("add_transaction", "None")
    /\ bc.pending # <<>>
    /\ Last(bc.pending).sender = sender
    /\ Last(bc.pending).recipient = recipient

\* C1: from a new ledger with a positive reward, every registered user's
\* get_balance is at least zero, and the debits of a user (committed and
\* pending) never exceed the credits committed to that user.
C1_BalancesNeverNegative ==
    FLt(Float(0), bc.reward) =>
        \A u \in bc.users :
            /\ FLe(Float(0), get_balance(bc, u))
            /\ FLe(Float(0), Replayed(bc, u))

\* C2 as stated: for registered a and b, equal or not, and a positive amount
\* m <= get_balance(a), add_transaction(a, b, m) succeeds, appends exactly one
\* entry to pending, lowers get_balance(a) by exactly m and leaves
\* get_balance(b) as it was.
C2_TransferLowersBalanceByAmount ==
    \A a \in bc.users, b \in bc.users, arg \in AmountArgs, note \in Notes :
        LET m == py_float(arg)
            r == add_transaction(bc, a, b, arg, note, _now)
        IN  (m.exc = "none" /\ FLt(Float(0), m.val) /\ FLe(m.val, get_balance(bc, a))) =>
                /\ r.out = "None"
                /\ Len(r.self.pending) = Len(bc.pending) + 1
                /\ get_balance(r.self, a) = FSub(get_balance(bc, a), m.val)
                /\ get_balance(r.self, b) = get_balance(bc, b)

\* C2 as amended: for registered a and b and a positive amount
\* m <= get_balance(a), add_transaction(a, b, m) succeeds and appends exactly
\* one entry (a, b, m) to pending; the balance replayed for a falls by exactly
\* m, so get_balance(a) becomes that sum rounded to 8 places; get_balance(b)
\* is unchanged when b is not a.
C2_TransferLowersReplayedBalance ==
    \A a \in bc.users, b \in bc.users, arg \in AmountArgs, note \in Notes :
        LET m == py_float(arg)
            r == add_transaction(bc, a, b, arg, note, _now)
        IN  (m.exc = "none" /\ FLt(Float(0), m.val) /\ FLe(m.val, get_balance(bc, a))) =>
                /\ r.out = "None"
                /\ r.self.pending = Append(bc.pending, Transaction(a, b, m.val, note, _now))
                /\ Replayed(r.self, a) = FSub(Replayed(bc, a), m.val)
                /\ get_balance(r.self, a) = round8(FSub(Replayed(bc, a), m.val))
                /\ (b # a => get_balance(r.self, b) = get_balance(bc, b))

\* A payment of less than one rounding step from alice to bob was admitted
\* and left get_balance(alice) where it was before minus a whole step.
C2_Witness ==
    /\ Admitted(alice, bob)
    /\ Last(bc.pending).amount = Float(2)
    /\ get_balance(bc, alice) = Float(0)
    /\ get_balance(bc, bob) = Float(0)

\* C3: mine(miner) with a registered miner commits one block holding the N
\* pending transactions in queue order and then the reward transaction
\* (SYSTEM to miner, amount reward), and empties pending; mining again at
\* once succeeds and commits a block holding the reward alone.
C3_MineCommitsPendingThenReward ==
    \A miner \in bc.users :
        LET r == mine(bc, miner, _now, _now)
            again == mine(r.self, miner, _now, _now)
        IN  /\ r.out = "Block"
            /\ Len(r.self.chain) = Len(bc.chain) + 1
            /\ SubSeq(r.self.chain, 1, Len(bc.chain)) = bc.chain
            /\ Last(r.self.chain).transactions =
                  bc.pending \o <<Transaction(SYSTEM, miner, bc.reward, RewardNote, _now)>>
            /\ Len(Last(r.self.chain).transactions) = Len(bc.pending) + 1
            /\ r.self.pending = <<>>
            /\ again.out = "Block"
            /\ Len(again.self.chain) = Len(bc.chain) + 2
            /\ Len(Last(again.self.chain).transactions) = 1
            /\ again.self.pending = <<>>

\* Two pending transactions were mined into a block of three, and the mine
\* repeated at once committed a block of one.
C3_Witness ==
    /\ ret = Ret("mine", "Block")
    /\ Len(bc.chain) = 3
    /\ Len(bc.chain[2].transactions) = 3
    /\ Len(bc.chain[3].transactions) = 1
    /\ bc.pending = <<>>

\* C4: the stored hash of every mined block is the Hasher's output for the
\* block's stored index, timestamp, transactions, previous_hash and nonce, and
\* starts with `difficulty` zeros.
C4_MinedHashIsRecomputableAndOnTarget ==
    /\ \A i \in 2..Len(bc.chain) :
          LET b == bc.chain[i]
          IN  /\ b.hash = _hash_block(b.index, b.timestamp, b.transactions,
                                      b.previous_hash, b.nonce)
              /\ startswith(b.hash, Zeros(bc.difficulty))
    /\ \A miner \in bc.users :
          LET b == Last(mine(bc, miner, _now, _now).self.chain)
          IN  /\ b.hash = _hash_block(b.index, b.timestamp, b.transactions,
                                      b.previous_hash, b.nonce)
              /\ startswith(b.hash, Zeros(bc.difficulty))

\* A block was mined at difficulty 1 and the search had to move the nonce.
C4_Witness ==
    /\ ret = Ret("mine", "Block")
    /\ bc.difficulty = 1
    /\ Last(bc.chain).nonce > 0

\* C5: the chain is hash-linked: the genesis block's previous_hash is 64
\* zeros and every later block's previous_hash is the hash of the block
\* before it.
C5_ChainIsHashLinked ==
    /\ bc.chain[1].previous_hash = Zeros(64)
    /\ \A i \in 2..Len(bc.chain) : bc.chain[i].previous_hash = bc.chain[i - 1].hash

\* Two blocks were mined on the genesis block, and the three hashes differ.
C5_Witness ==
    /\ Len(bc.chain) = 3
    /\ bc.chain[1].hash # bc.chain[2].hash
    /\ bc.chain[2].hash # bc.chain[3].hash

\* C6: export then import gives back an equal ledger: the same chain, users,
\* pending queue, difficulty and reward.
C6_ExportImportRoundTrip ==
    LET r == from_dict(to_dict(bc), _now, _now)
    IN  /\ r.exc = "none"
        /\ r.val.chain = bc.chain
        /\ r.val.users = bc.users
        /\ r.val.pending = bc.pending
        /\ r.val.difficulty = bc.difficulty
        /\ r.val.reward = bc.reward

\* A whole export of a ledger with 2 users, a mined block and 1 pending
\* transaction was loaded.
C6_Witness ==
    /\ ret = [op |-> "do_load", out |-> "Loaded", missing |-> <<>>]
    /\ Cardinality(bc.users) = 2
    /\ Len(bc.chain) = 2
    /\ Len(bc.pending) = 1

\* The fields C7 calls required: users, pending and chain at the top level,
\* and every field of a block or of a transaction.
MissesRequiredField(snapshot) ==
    /\ snapshot.missing # <<>>
    /\ snapshot.missing \notin {<<"difficulty">>, <<"reward">>}

\* C7: the import of a snapshot that misses a required field fails, and the
\* ledger held before is unchanged.
C7_MalformedImportFailsAndKeepsLedger ==
    \A snapshot \in Snapshots(bc) :
        MissesRequiredField(snapshot) =>
            LET r == do_load(bc, snapshot.data, _now, _now)
            IN  r.out # "Loaded" /\ r.self = bc

\* What C8 says add_transaction returns: the first violated check in the
\* order number, positive, sender, recipient, funds, and success when none is.
C8_Expected(self, sender, recipient, amountArg) ==
    LET m == py_float(amountArg)
    IN  IF m.exc # "none" THEN "Amount must be a number."
        ELSE IF ~FLt(Float(0), m.val) THEN "Amount must be positive."
        ELSE IF sender # SYSTEM /\ sender \notin self.users THEN "Unknown sender"
        ELSE IF recipient \notin self.users /\ recipient # GENESIS THEN "Unknown recipient"
        ELSE IF sender # SYSTEM /\ FLt(get_balance(self, sender), m.val)
        THEN "Insufficient funds"
        ELSE "None"

\* C8: add_transaction never raises; it returns the failure naming the first
\* violated check, and success exactly when no check is violated.
C8_ReturnsFirstViolatedCheck ==
    \A call \in TxArgs, note \in Notes :
        add_transaction(bc, call[1], call[2], call[3], note, _now).out =
            C8_Expected(bc, call[1], call[2], call[3])

\* C9: a failed add_transaction leaves pending, chain and users (the whole
\* ledger) unchanged, and a successful one changes pending alone.
C9_OnlyAdmissionTouchesPending ==
    \A call \in TxArgs, note \in Notes :
        LET r == add_transaction(bc, call[1], call[2], call[3], note, _now)
        IN  /\ r.out # "None" => r.self = bc
            /\ r.out = "None" =>
                  /\ r.self.pending # bc.pending
                  /\ r.self = [bc EXCEPT !.pending = r.self.pending]

\* An amount that is not positive was refused on a ledger with users, a
\* mined block and a pending transaction.
C9_Witness ==
    /\ ret = Ret("add_transaction", "Amount must be positive.")
    /\ bc.users # {}
    /\ Len(bc.chain) > 1
    /\ bc.pending # <<>>

\* C10: mine with a miner that is no registered user raises ValueError and
\* leaves the ledger, chain and pending included, unchanged.
C10_UnknownMinerRaises ==
    \A miner \in (Miners \cup {SYSTEM, GENESIS}) \ bc.users :
        LET r == mine(bc, miner, _now, _now)
        IN  r.out = "ValueError" /\ r.self = bc

\* mine raised ValueError on a ledger with a mined block and a pending
\* transaction.
C10_Witness ==
    /\ ret = Ret("mine", "ValueError")
    /\ Len(bc.chain) > 1
    /\ bc.pending # <<>>

\* name spells SYSTEM in some mix of upper and lower case.
SpellsSystem(name) ==
    /\ Len(name) = Len(SYSTEM)
    /\ \A i \in 1..Len(SYSTEM) :
          name[i] \in {SYSTEM[i], <<"s", "y", "s", "t", "e", "m">>[i]}

\* C11: add_user(name) succeeds exactly when the trimmed name is not empty,
\* does not spell SYSTEM in any letter case and is not registered yet; a
\* success adds exactly the trimmed name to users, a failure leaves users as
\* they were; chain and pending are unchanged either way; the same name given
\* again fails; SYSTEM is never a user.
C11_AddUserRegistersTrimmedNameOnce ==
    /\ SYSTEM \notin bc.users
    /\ \A name \in NameArgs :
          LET trimmed == strip(name)
              valid == trimmed # EmptyStr /\ ~SpellsSystem(trimmed) /\ trimmed \notin bc.users
              r == add_user(bc, name)
          IN  /\ r.out = "True" <=> valid
              /\ r.self.users = IF valid THEN bc.users \cup {trimmed} ELSE bc.users
              /\ r.self.chain = bc.chain
              /\ r.self.pending = bc.pending
              /\ add_user(r.self, name).out = "False"
              /\ add_user(r.self, name).self = r.self

\* bob was registered on a ledger that has a mined block and a pending
\* transaction, next to alice.
C11_Witness ==
    /\ ret = Ret("add_user", "True")
    /\ bc.users = {alice, bob}
    /\ Len(bc.chain) > 1
    /\ bc.pending # <<>>

\* C12: get_balance(u) right after a successful add_user(u) is 0, whatever
\* came before the registration.
C12_NewUserHasZeroBalance ==
    \A name \in NameArgs :
        LET r == add_user(bc, name)
        IN  r.out = "True" => get_balance(r.self, strip(name)) = Float(0)

\* The names asked about: those given to add_user, trimmed, and the miners.
Names == {strip(name) : name \in NameArgs} \cup Miners

\* C13 as stated: get_balance returns zero for every name that is not a
\* registered user.
C13_UnregisteredNameHasZeroBalance ==
    \A name \in (Names \cup {SYSTEM, GENESIS}) \ bc.users :
        get_balance(bc, name) = Float(0)

\* C13 as amended: get_balance returns zero for every name that is not a
\* registered user and is neither SYSTEM nor GENESIS, the two identities
\* that take part in transactions without being registered.
C13_UnknownNameHasZeroBalance ==
    \A name \in Names \ (bc.users \cup {SYSTEM, GENESIS}) :
        get_balance(bc, name) = Float(0)

\* A payment to carol, who is not registered, was refused on a ledger where
\* alice holds coins, and carol's balance is zero.
C13_Witness ==
    /\ ret = Ret("add_transaction", "Unknown recipient")
    /\ carol \notin bc.users
    /\ Len(bc.chain) > 1
    /\ FLt(Float(0), get_balance(bc, alice))
    /\ get_balance(bc, carol) = Float(0)

\* The sum of the amounts of the transactions of txs paid to name.
RECURSIVE CreditsTo(_, _)
CreditsTo(txs, name) ==
    IF txs = <<>> THEN Float(0)
    ELSE FAdd(IF Head(txs).recipient = name THEN Head(txs).amount ELSE Float(0),
              CreditsTo(Tail(txs), name))

\* The reward when name is the miner, else nothing.
RewardTo(self, miner, name) == IF name = miner THEN self.reward ELSE Float(0)

C15_AmountsArePositive ==
    /\ \A i \in 1..Len(bc.pending) : FLt(Float(0), bc.pending[i].amount)
    /\ \A i \in 2..Len(bc.chain) :
          \A j \in 1..Len(bc.chain[i].transactions) :
              FLt(Float(0), bc.chain[i].transactions[j].amount)
    /\ \A j \in 1..Len(bc.chain[1].transactions) :
          bc.chain[1].transactions[j].amount = Float(0)

\* The transaction tx holds every field that the snapshot's entry d gives.
SameTransaction(tx, d) == \A k \in DOMAIN d : Transaction_to_dict(tx)[k] = d[k]

SameTransactions(txs, ds) ==
    /\ Len(txs) = Len(ds)
    /\ \A i \in 1..Len(ds) : SameTransaction(txs[i], ds[i])

\* When loading data succeeds, the ledger held afterwards has the snapshot's
\* users, pending and chain (the empty ones where the snapshot has none),
\* the given difficulty, and the snapshot's reward or else 10.0.
ImportReplaces(self, data, difficulty) ==
    LET r == do_load(self, data, _now, _now)
        users == Get(data, "users", <<>>)
        pending == Get(data, "pending", <<>>)
        chain == Get(data, "chain", <<>>)
    IN  r.out = "Loaded" =>
            /\ r.self.users = {users[i] : i \in 1..Len(users)}
            /\ SameTransactions(r.self.pending, pending)
            /\ Len(r.self.chain) = Len(chain)
            /\ \A i \in 1..Len(chain) :
                  /\ \A k \in {"index", "timestamp", "previous_hash", "nonce", "hash"} :
                        r.self.chain[i][k] = chain[i][k]
                  /\ SameTransactions(r.self.chain[i].transactions, chain[i].transactions)
            /\ r.self.difficulty = difficulty
            /\ r.self.reward = Get(data, "reward", Float(10 * Quantum))

\* C16 as stated: a successful import puts the snapshot's users, pending and
\* chain in place of the ledger's, and its difficulty and reward are the
\* snapshot's values, or 2 and 10.0 when the snapshot omits them.
C16_ImportTakesSnapshotValues ==
    \A data \in ImportArgs(bc) : ImportReplaces(bc, data, Get(data, "difficulty", 2))

\* C16 as amended: as stated, but the difficulty is the snapshot's value as
\* the constructor takes it: a negative one becomes 0.
C16_ImportTakesNormalisedDifficulty ==
    \A data \in ImportArgs(bc) :
        LET given == Get(data, "difficulty", 2)
        IN  ImportReplaces(bc, data, IF given > 0 THEN given ELSE 0)

\* An export without its chain was loaded over a ledger with users: the
\* ledger held now has the snapshot's users and no block at all.
C16_Witness ==
    /\ ret = [op |-> "do_load", out |-> "Loaded", missing |-> <<"chain">>]
    /\ bc.chain = <<>>
    /\ bc.users # {}

\* The digest of block b with its nonce replaced by n starts with the
\* ledger's `difficulty` zeros.
Acceptable(self, b, n) ==
    startswith(_hash_block(b.index, b.timestamp, b.transactions, b.previous_hash, n),
               Zeros(self.difficulty))

\* The nonce of b is the smallest acceptable one, and 0 at difficulty 0.
SmallestNonce(self, b) ==
    /\ b.nonce >= 0
    /\ Acceptable(self, b, b.nonce)
    /\ \A n \in 0..(b.nonce - 1) : ~Acceptable(self, b, n)
    /\ self.difficulty = 0 => b.nonce = 0

\* C17: the nonce of every block mine commits is the smallest n >= 0 for
\* which the digest of (index, timestamp, transactions, previous_hash, n)
\* starts with `difficulty` zeros; at difficulty 0 it is 0.
C17_NonceIsSmallestAcceptable ==
    /\ \A i \in 2..Len(bc.chain) : SmallestNonce(bc, bc.chain[i])
    /\ \A miner \in bc.users :
          SmallestNonce(bc, Last(mine(bc, miner, _now, _now).self.chain))

\* A block was mined at difficulty 1 after two digests were turned down.
C17_Witness ==
    /\ ret = Ret("mine", "Block")
    /\ bc.difficulty = 1
    /\ Last(bc.chain).nonce >= 2

\* C18: the chain is append-only: in every step the chain before is a prefix
\* of the chain after; only a successful mine lengthens it, and it does so
\* by exactly one block, whose index is the chain's length before the call.
C18_ChainIsAppendOnly ==
    [][/\ Len(bc'.chain) >= Len(bc.chain)
       /\ SubSeq(bc'.chain, 1, Len(bc.chain)) = bc.chain
       /\ bc'.chain # bc.chain => ret' = Ret("mine", "Block")
       /\ ret' = Ret("mine", "Block") =>
              /\ Len(bc'.chain) = Len(bc.chain) + 1
              /\ Last(bc'.chain).index = Len(bc.chain)]_vars

\* Three blocks were mined on the genesis block while transactions came in,
\* and every block's index is its position.
C18_Witness ==
    /\ ret = Ret("mine", "Block")
    /\ Len(bc.chain) = 4
    /\ \A i \in 1..Len(bc.chain) : bc.chain[i].index = i - 1
    /\ Len(bc.chain[3].transactions) > 1

\* Every transaction the ledger holds, one entry per occurrence: those of
\* the blocks in chain order, then the pending ones in queue order.
RECURSIVE Committed(_)
Committed(blocks) ==
    IF blocks = <<>> THEN <<>>
    ELSE Head(blocks).transactions \o Committed(Tail(blocks))

History(self) == Committed(self.chain) \o self.pending

\* C19: an admitted transaction stays in pending until the next successful
\* mine and is from then on in exactly one block, the one that mine
\* committed. Transactions are told apart by occurrence: in every step the
\* history before (committed, then pending) is a prefix of the history after,
\* so that none is lost, doubled or moved; a successful mine adds its reward
\* alone and commits exactly the pending queue; every other step leaves the
\* chain as it was, and pending too unless it admits one transaction.
C19_PendingMovesToOneBlock ==
    [][/\ SubSeq(History(bc'), 1, Len(History(bc))) = History(bc)
       /\ IF ret' = Ret("mine", "Block")
          THEN /\ Len(History(bc')) = Len(History(bc)) + 1
               /\ bc'.pending = <<>>
               /\ bc'.chain = Append(bc.chain, Last(bc'.chain))
               /\ Last(bc'.chain).transactions = bc.pending \o <<Last(History(bc'))>>
          ELSE /\ bc'.chain = bc.chain
               /\ \/ bc'.pending = bc.pending
                  \/ /\ ret' = Ret("add_transaction", "None")
                     /\ Len(bc'.pending) = Len(bc.pending) + 1
                     /\ SubSeq(bc'.pending, 1, Len(bc.pending)) = bc.pending]_vars

\* Two admitted transactions were committed in one block with the reward,
\* and a third was admitted afterwards and waits in pending.
C19_Witness ==
    /\ ret = Ret("add_transaction", "None")
    /\ Len(bc.chain) = 2
    /\ Len(bc.chain[2].transactions) = 3
    /\ Len(bc.pending) = 1

\* The sum of get_balance over the identities of S.
RECURSIVE TotalBalance(_, _)
TotalBalance(self, S) ==
    IF S = {} THEN Float(0)
    ELSE LET name == CHOOSE x \in S : TRUE
         IN  FAdd(get_balance(self, name), TotalBalance(self, S \ {name}))

\* The sum of the amounts of txs.
RECURSIVE TotalAmount(_)
TotalAmount(txs) ==
    IF txs = <<>> THEN Float(0) ELSE FAdd(Head(txs).amount, TotalAmount(Tail(txs)))

\* C20: value is conserved: the sum of get_balance over every registered
\* user, SYSTEM and GENESIS is minus the sum of the pending amounts, and so
\* zero whenever pending is empty.
C20_ValueIsConserved ==
    TotalBalance(bc, bc.users \cup {SYSTEM, GENESIS}) =
        FSub(Float(0), TotalAmount(bc.pending))

====
